---------------------------- MODULE Spec2Model ----------------------------
(***************************************************************************)
(* A model of recipe_optimizer_sdd.py: the recipe store kept in            *)
(* recipes.json, create_recipe, optimize_recipe (target-servings and       *)
(* maximize mode), apply_sdd, hydration and detect_ingredient.             *)
(*                                                                         *)
(* Numbers are Python floats, i.e. IEEE 754 binary64 values.  A finite     *)
(* value is sign * man * 2^exp with man an odd natural number below 2^53   *)
(* (or man = 0), kept as a little-endian sequence of limbs because the     *)
(* significand does not fit a machine integer of the model checker.  Every *)
(* arithmetic operator computes the exact result and rounds it to nearest, *)
(* ties to even, as the hardware does.  The sign of zero is not kept: the  *)
(* program only compares and multiplies zeros, and -0.0 == 0.0.            *)
(*                                                                         *)
(* Strings are sequences of one-character strings, so that lower() and the *)
(* substring test of detect_ingredient are computed, not assumed.          *)
(***************************************************************************)
EXTENDS Integers, Sequences, FiniteSets, TLC

VARIABLES
    file,      \* recipes.json: whether it exists, and its JSON content
    saves,     \* number of save_recipes calls made so far
    last,      \* the call made since the last menu prompt, and what it computed
    scenario   \* the arguments drawn for a function checked on its own

vars == <<file, saves, last, scenario>>

---------------------------------------------------------------------------
(* With(x, F) is F(x) with x computed once, before F uses it: operators    *)
(* below name an intermediate value this way wherever it is used more than *)
(* once.                                                                   *)

With(x, F(_)) == CHOOSE r \in {F(v) : v \in {x}} : TRUE
With2(x, y, F(_, _)) == CHOOSE r \in {F(v, w) : v \in {x}, w \in {y}} : TRUE

Max(a, b) == IF a >= b THEN a ELSE b
Min(a, b) == IF a <= b THEN a ELSE b

---------------------------------------------------------------------------
(* Natural numbers of any size: little-endian limbs, no leading zero limb. *)

LimbBits == 15
Base == 2 ^ LimbBits

RECURSIVE BNormTo(_, _)
BNormTo(a, n) ==
    IF n = 0 THEN << >>
    ELSE IF a[n] = 0 THEN BNormTo(a, n - 1)
    ELSE SubSeq(a, 1, n)

\* a without its leading zero limbs
BNorm(a) == With(a, LAMBDA x : BNormTo(x, Len(x)))

BFromInt(n) ==
    IF n = 0 THEN << >>
    ELSE IF n < Base THEN <<n>>
    ELSE BNorm(<<n % Base, (n \div Base) % Base, n \div (Base * Base)>>)

BLimb(a, i) == IF i <= Len(a) THEN a[i] ELSE 0

RECURSIVE BAddFrom(_, _, _, _)
BAddFrom(a, b, i, carry) ==
    IF i > Len(a) /\ i > Len(b)
    THEN IF carry = 0 THEN << >> ELSE <<carry>>
    ELSE With(BLimb(a, i) + BLimb(b, i) + carry,
              LAMBDA s : <<s % Base>> \o BAddFrom(a, b, i + 1, s \div Base))

BAdd(a, b) == With2(a, b, LAMBDA x, y : BAddFrom(x, y, 1, 0))

RECURSIVE BSubFrom(_, _, _, _)
BSubFrom(a, b, i, borrow) ==
    IF i > Len(a) THEN << >>
    ELSE With(BLimb(a, i) - BLimb(b, i) - borrow,
              LAMBDA d : IF d < 0 THEN <<d + Base>> \o BSubFrom(a, b, i + 1, 1)
                         ELSE <<d>> \o BSubFrom(a, b, i + 1, 0))

\* a - b for a >= b
BSub(a, b) == With2(a, b, LAMBDA x, y : BNorm(BSubFrom(x, y, 1, 0)))

RECURSIVE BCmpFrom(_, _, _)
BCmpFrom(a, b, i) ==
    IF i = 0 THEN 0
    ELSE IF a[i] < b[i] THEN -1
    ELSE IF a[i] > b[i] THEN 1
    ELSE BCmpFrom(a, b, i - 1)

\* -1, 0 or 1 as a < b, a = b, a > b
BCmp(a, b) ==
    With2(a, b, LAMBDA x, y :
        IF Len(x) < Len(y) THEN -1
        ELSE IF Len(x) > Len(y) THEN 1
        ELSE BCmpFrom(x, y, Len(x)))

RECURSIVE BMulSmallFrom(_, _, _, _)
BMulSmallFrom(a, k, i, carry) ==
    IF i > Len(a)
    THEN IF carry = 0 THEN << >> ELSE <<carry>>
    ELSE With(a[i] * k + carry,
              LAMBDA p : <<p % Base>> \o BMulSmallFrom(a, k, i + 1, p \div Base))

\* a * k for 0 <= k < Base
BMulSmall(a, k) ==
    With2(a, k, LAMBDA x, y : IF y = 0 THEN << >> ELSE BMulSmallFrom(x, y, 1, 0))

Zeros(n) == [i \in 1..n |-> 0]

RECURSIVE BMulFrom(_, _, _)
BMulFrom(a, b, i) ==
    IF i > Len(b) THEN << >>
    ELSE BAdd(BNorm(Zeros(i - 1) \o BMulSmall(a, b[i])), BMulFrom(a, b, i + 1))

BMul(a, b) ==
    With2(a, b, LAMBDA x, y :
        IF x = << >> \/ y = << >> THEN << >> ELSE BMulFrom(x, y, 1))

\* a * 2^n
BShl(a, n) ==
    With2(a, n, LAMBDA x, k :
        IF x = << >> THEN << >>
        ELSE Zeros(k \div LimbBits) \o BMulSmall(x, 2 ^ (k % LimbBits)))

RECURSIVE BDivSmallFrom(_, _, _, _)
BDivSmallFrom(a, k, i, rem) ==
    IF i = 0 THEN << >>
    ELSE With(rem * Base + a[i],
              LAMBDA cur : BDivSmallFrom(a, k, i - 1, cur % k) \o <<cur \div k>>)

\* floor(a / 2^n)
BShr(a, n) ==
    With2(a, n, LAMBDA x, k :
        With(IF k \div LimbBits >= Len(x) THEN << >>
             ELSE SubSeq(x, k \div LimbBits + 1, Len(x)),
             LAMBDA rest :
                 BNorm(BDivSmallFrom(rest, 2 ^ (k % LimbBits), Len(rest), 0))))

RECURSIVE BitLenInt(_)
BitLenInt(n) == IF n = 0 THEN 0 ELSE 1 + BitLenInt(n \div 2)

BBitLen(a) ==
    With(a, LAMBDA x :
        IF x = << >> THEN 0 ELSE (Len(x) - 1) * LimbBits + BitLenInt(x[Len(x)]))

\* bit i of a, bit 0 the lowest
BBit(a, i) == (BLimb(a, i \div LimbBits + 1) \div 2 ^ (i % LimbBits)) % 2

\* whether a bit below bit n of a is set
BLowBits(a, n) ==
    With2(a, n, LAMBDA x, k :
        \/ \E i \in 1..Min(Len(x), k \div LimbBits) : x[i] # 0
        \/ BLimb(x, k \div LimbBits + 1) % 2 ^ (k % LimbBits) # 0)

BOdd(a) == With(a, LAMBDA x : x # << >> /\ x[1] % 2 = 1)

RECURSIVE TrailingZerosInt(_)
TrailingZerosInt(n) == IF n % 2 = 1 THEN 0 ELSE 1 + TrailingZerosInt(n \div 2)

RECURSIVE BTrailingZerosFrom(_, _)
BTrailingZerosFrom(a, i) ==
    IF a[i] = 0 THEN LimbBits + BTrailingZerosFrom(a, i + 1)
    ELSE TrailingZerosInt(a[i])

\* number of low zero bits of a > 0
BTrailingZeros(a) == With(a, LAMBDA x : BTrailingZerosFrom(x, 1))

\* the largest d in lo..hi with b * d <= cur, by bisection
RECURSIVE QDigit(_, _, _, _)
QDigit(cur, b, lo, hi) ==
    IF lo = hi THEN lo
    ELSE With((lo + hi + 1) \div 2,
              LAMBDA mid : IF BCmp(BMulSmall(b, mid), cur) <= 0
                           THEN QDigit(cur, b, mid, hi)
                           ELSE QDigit(cur, b, lo, mid - 1))

\* long division of the limbs i..1 of a by b > 0, r the remainder so far
RECURSIVE BDivModFrom(_, _, _, _)
BDivModFrom(a, b, i, r) ==
    IF i = 0 THEN << << >>, r >>
    ELSE With(BNorm(<<a[i]>> \o r), LAMBDA cur :
         With(QDigit(cur, b, 0, Base - 1), LAMBDA d :
         With(BDivModFrom(a, b, i - 1, BSub(cur, BMulSmall(b, d))), LAMBDA rest :
              << rest[1] \o <<d>>, rest[2] >>)))

\* <<quotient, remainder>> of a by b > 0
BDivMod(a, b) ==
    With2(a, b, LAMBDA x, y :
        With(BDivModFrom(x, y, Len(x), << >>),
             LAMBDA qr : << BNorm(qr[1]), qr[2] >>))

---------------------------------------------------------------------------
(* Python floats.                                                          *)

Precision == 53        \* bits of a binary64 significand
MinExp == -1074        \* exponent of the smallest subnormal, 2^-1074
MaxExp == 1024         \* every finite value is below 2^1024

Zero == [kind |-> "fin", sign |-> 0, man |-> << >>, exp |-> 0]
Inf == [kind |-> "inf", sign |-> 0, man |-> << >>, exp |-> 0]
NegInf == [kind |-> "inf", sign |-> 1, man |-> << >>, exp |-> 0]
NaN == [kind |-> "nan", sign |-> 0, man |-> << >>, exp |-> 0]

IsNaN(x) == x.kind = "nan"
IsInf(x) == x.kind = "inf"
IsFin(x) == x.kind = "fin"
IsZero(x) == x.kind = "fin" /\ x.man = << >>

\* The float of value (-1)^sign * m * 2^e for a natural m below 2^53, exactly.
Canon(sign, m, e) ==
    With(m, LAMBDA x :
        IF x = << >> THEN Zero
        ELSE With(BTrailingZeros(x), LAMBDA tz :
                 [kind |-> "fin", sign |-> sign, man |-> BShr(x, tz), exp |-> e + tz]))

\* m * 2^e rounded at bit shift > 0 of m, ties to even
RoundAt(sign, m, e, shift) ==
    With(BShr(m, shift), LAMBDA q :
    With(IF BBit(m, shift - 1) = 1 /\ (BLowBits(m, shift - 1) \/ BOdd(q))
         THEN BAdd(q, <<1>>) ELSE q,
         LAMBDA r :
             IF BBitLen(r) + e + shift > MaxExp
             THEN [Inf EXCEPT !.sign = sign]
             ELSE Canon(sign, r, e + shift)))

\* The float nearest to (-1)^sign * m * 2^e, ties to even; gradual underflow
\* below 2^-1022 and overflow to infinity from 2^1024 on.
Round(sign, m, e) ==
    With2(m, e, LAMBDA x, ex :
        IF x = << >> THEN Zero
        ELSE With(BBitLen(x), LAMBDA len :
                 IF Max(len - Precision, MinExp - ex) <= 0
                 THEN IF len + ex > MaxExp
                      THEN [Inf EXCEPT !.sign = sign]
                      ELSE Canon(sign, x, ex)
                 ELSE RoundAt(sign, x, ex, Max(len - Precision, MinExp - ex))))

\* float(n) for an integer n of the model
FInt(n) == IF n < 0 THEN Canon(1, BFromInt(-n), 0) ELSE Canon(0, BFromInt(n), 0)

\* n / 2^k, exactly
FDyadic(n, k) == Canon(0, BFromInt(n), -k)

Neg(x) ==
    With(x, LAMBDA a :
        IF IsNaN(a) \/ IsZero(a) THEN a ELSE [a EXCEPT !.sign = 1 - a.sign])

\* -1, 0, 1 as |x| < |y|, |x| = |y|, |x| > |y| for finite non-zero x, y
CmpMag(x, y) ==
    With2(BBitLen(x.man) + x.exp, BBitLen(y.man) + y.exp, LAMBDA tx, ty :
        IF tx < ty THEN -1
        ELSE IF tx > ty THEN 1
        ELSE BCmp(BShl(x.man, x.exp - Min(x.exp, y.exp)),
                  BShl(y.man, y.exp - Min(x.exp, y.exp))))

\* x < y of Python: False when either is nan
FLt(x, y) ==
    With2(x, y, LAMBDA a, b :
        IF IsNaN(a) \/ IsNaN(b) THEN FALSE
        ELSE IF a = b THEN FALSE
        ELSE IF IsInf(a) THEN a.sign = 1
        ELSE IF IsInf(b) THEN b.sign = 0
        ELSE IF IsZero(a) THEN b.sign = 0
        ELSE IF IsZero(b) THEN a.sign = 1
        ELSE IF a.sign # b.sign THEN a.sign = 1
        ELSE IF a.sign = 0 THEN CmpMag(a, b) < 0
        ELSE CmpMag(a, b) > 0)

FGt(x, y) == FLt(y, x)

\* big + small when small is below 2^-106 of the lowest set bit of big: small only
\* decides the direction of rounding, as one unit far below big's last bit
FAddFar(big, small) ==
    With(BShl(big.man, Precision + 2), LAMBDA m :
        Round(big.sign,
              IF small.sign = big.sign THEN BAdd(m, <<1>>) ELSE BSub(m, <<1>>),
              big.exp - Precision - 2))

\* x + y for finite non-zero x and y whose exponents are at most 3 * 53 apart
FAddNear(x, y) ==
    With(Min(x.exp, y.exp), LAMBDA e :
    With2(BShl(x.man, x.exp - e), BShl(y.man, y.exp - e), LAMBDA mx, my :
        IF x.sign = y.sign THEN Round(x.sign, BAdd(mx, my), e)
        ELSE IF BCmp(mx, my) >= 0 THEN Round(x.sign, BSub(mx, my), e)
        ELSE Round(y.sign, BSub(my, mx), e)))

\* x + y
FAdd(x, y) ==
    With2(x, y, LAMBDA a, b :
        IF IsNaN(a) \/ IsNaN(b) THEN NaN
        ELSE IF IsInf(a) THEN (IF IsInf(b) /\ b.sign # a.sign THEN NaN ELSE a)
        ELSE IF IsInf(b) THEN b
        ELSE IF IsZero(a) THEN b
        ELSE IF IsZero(b) THEN a
        ELSE IF a.exp - b.exp > 3 * Precision THEN FAddFar(a, b)
        ELSE IF b.exp - a.exp > 3 * Precision THEN FAddFar(b, a)
        ELSE FAddNear(a, b))

\* x - y
FSub(x, y) == FAdd(x, Neg(y))

\* x * y
FMul(x, y) ==
    With2(x, y, LAMBDA a, b :
        IF IsNaN(a) \/ IsNaN(b) THEN NaN
        ELSE IF IsInf(a) \/ IsInf(b)
             THEN IF IsZero(a) \/ IsZero(b) THEN NaN
                  ELSE [Inf EXCEPT !.sign = (a.sign + b.sign) % 2]
        ELSE Round((a.sign + b.sign) % 2, BMul(a.man, b.man), a.exp + b.exp))

\* x / y for finite non-zero x and y: the quotient to 55 bits or more, with a
\* last bit that says whether anything was left, rounded
FDivFinite(x, y) ==
    With(Max(0, Precision + 2 + BBitLen(y.man) - BBitLen(x.man)), LAMBDA k :
    With(BDivMod(BShl(x.man, k), y.man), LAMBDA qr :
        Round((x.sign + y.sign) % 2,
              BAdd(BMulSmall(qr[1], 2), IF qr[2] = << >> THEN << >> ELSE <<1>>),
              x.exp - y.exp - k - 1)))

\* x / y for y # 0 (Python raises ZeroDivisionError before dividing by zero)
FDiv(x, y) ==
    With2(x, y, LAMBDA a, b :
        IF IsNaN(a) \/ IsNaN(b) THEN NaN
        ELSE IF IsInf(a)
             THEN IF IsInf(b) THEN NaN
                  ELSE [Inf EXCEPT !.sign = (a.sign + b.sign) % 2]
        ELSE IF IsInf(b) \/ IsZero(a) THEN Zero
        ELSE FDivFinite(a, b))

---------------------------------------------------------------------------
(* Strings, dicts and None.                                                *)

UpperCase == <<"A", "B", "C", "D", "E", "F", "G", "H", "I", "J", "K", "L", "M",
               "N", "O", "P", "Q", "R", "S", "T", "U", "V", "W", "X", "Y", "Z">>
LowerCase == <<"a", "b", "c", "d", "e", "f", "g", "h", "i", "j", "k", "l", "m",
               "n", "o", "p", "q", "r", "s", "t", "u", "v", "w", "x", "y", "z">>

\* str.lower()
LowerChar(c) ==
    IF \E i \in 1..Len(UpperCase) : UpperCase[i] = c
    THEN LowerCase[CHOOSE i \in 1..Len(UpperCase) : UpperCase[i] = c]
    ELSE c

Lower(str) == With(str, LAMBDA x : [i \in 1..Len(x) |-> LowerChar(x[i])])

\* str.strip()
RECURSIVE StripBetween(_, _, _)
StripBetween(str, i, j) ==
    IF i > j THEN << >>
    ELSE IF str[i] = " " THEN StripBetween(str, i + 1, j)
    ELSE IF str[j] = " " THEN StripBetween(str, i, j - 1)
    ELSE SubSeq(str, i, j)

Strip(str) == With(str, LAMBDA x : StripBetween(x, 1, Len(x)))

\* h in str
Contains(h, str) ==
    With2(h, str, LAMBDA x, y :
        \E i \in 0..(Len(y) - Len(x)) : SubSeq(y, i + 1, i + Len(x)) = x)

\* None, or a value: Python's optional results
None == [none |-> TRUE, val |-> << >>]
Some(v) == [none |-> FALSE, val |-> v]

\* A dict is the sequence of its items [k, v] in insertion order.
Keys(d) == With(d, LAMBDA x : [i \in 1..Len(x) |-> x[i].k])
HasKey(d, k) == With2(d, k, LAMBDA x, y : \E i \in 1..Len(x) : x[i].k = y)
Get(d, k) == With2(d, k, LAMBDA x, y : x[CHOOSE i \in 1..Len(x) : x[i].k = y].v)

\* d[k] = v
Put(d, k, v) ==
    With2(d, [k |-> k, v |-> v], LAMBDA x, item :
        IF HasKey(x, item.k)
        THEN [i \in 1..Len(x) |-> IF x[i].k = item.k THEN item ELSE x[i]]
        ELSE Append(x, item))

---------------------------------------------------------------------------
(* The program.                                                            *)

FLOUR_HINTS == << <<"f", "l", "o", "u", "r">> >>
LIQUID_HINTS == << <<"w", "a", "t", "e", "r">>, <<"m", "i", "l", "k">> >>

\* any(h in k.lower() for h in hints)
MatchesAny(k, hints) ==
    With(Lower(k), LAMBDA low : \E j \in 1..Len(hints) : Contains(hints[j], low))

\* detect_ingredient from the i-th key on
RECURSIVE DetectFrom(_, _, _)
DetectFrom(keys, hints, i) ==
    IF i > Len(keys) THEN None
    ELSE IF MatchesAny(keys[i], hints) THEN Some(keys[i])
    ELSE DetectFrom(keys, hints, i + 1)

\* detect_ingredient with the loops exchanged: the first hint that any key
\* contains decides
RECURSIVE DetectByHint(_, _, _)
DetectByHint(keys, hints, j) ==
    IF j > Len(hints) THEN None
    ELSE With(DetectFrom(keys, <<hints[j]>>, 1), LAMBDA found :
             IF found.none THEN DetectByHint(keys, hints, j + 1) ELSE found)

detect_ingredient_hint_first(keys, hints) ==
    With2(keys, hints, LAMBDA ks, hs : DetectByHint(ks, hs, 1))

detect_ingredient(keys, hints) ==
    With2(keys, hints, LAMBDA ks, hs : DetectFrom(ks, hs, 1))

\* "if flour:" -- None and the empty string are false
TruthyStr(r) == ~r.none /\ r.val # << >>

\* "if h:" -- None and 0.0 are false, nan is true
TruthyFloat(r) == ~r.none /\ ~IsZero(r.val)

\* The values get_float can return: the blank value on an empty line when blanks
\* are allowed, else any float typed that is not below min_value; every other
\* line is asked again.  typed is the set of floats the user may type.
get_float(typed, allow_blank, blank_value, min_value) ==
    (IF allow_blank THEN {blank_value} ELSE {})
        \cup {v \in typed : ~FLt(v, min_value)}

\* max(0, x): x when x > 0, else the first argument
PyMax0(x) == With(x, LAMBDA a : IF FGt(a, Zero) THEN a ELSE Zero)

\* min(xs) of a non-empty sequence: the first item no later item is below
RECURSIVE PyMinFrom(_, _, _)
PyMinFrom(xs, i, best) ==
    IF i > Len(xs) THEN best
    ELSE IF FLt(xs[i], best) THEN PyMinFrom(xs, i + 1, xs[i])
    ELSE PyMinFrom(xs, i + 1, best)

PyMin(xs) == With(xs, LAMBDA s : PyMinFrom(s, 2, s[1]))

\* sum(xs), from 0 and in order
RECURSIVE PySumFrom(_, _, _)
PySumFrom(xs, i, acc) ==
    IF i > Len(xs) THEN acc ELSE PySumFrom(xs, i + 1, FAdd(acc, xs[i]))

PySum(xs) == With(xs, LAMBDA s : PySumFrom(s, 1, Zero))

Half == FDyadic(1, 1)
Hundred == FInt(100)
\* float("0.0001"), the double nearest to 1/10000
MinServings == FDiv(FInt(1), FInt(10000))

SddKey == <<"s", "d", "d">>
FlourWarning == "SDD exceeds flour; flour reduced to 0"
LiquidWarning == "SDD exceeds liquid; liquid reduced to 0"

\* "if flour:" and the two lines under it (and the same for the liquid): the
\* warning, if any, and the amounts after the reduction
Reduce(amounts, found, reduction, warning) ==
    IF TruthyStr(found)
    THEN With(Get(amounts, found.val), LAMBDA amount :
             [warnings |-> IF FGt(reduction, amount) THEN <<warning>> ELSE << >>,
              amounts |-> Put(amounts, found.val, PyMax0(FSub(amount, reduction)))])
    ELSE [warnings |-> << >>, amounts |-> amounts]

\* apply_sdd: [amounts, flour, warnings]
apply_sdd(amounts, sdd) ==
    With2(amounts, sdd, LAMBDA a0, d :
    With2(detect_ingredient(Keys(a0), FLOUR_HINTS),
          detect_ingredient(Keys(a0), LIQUID_HINTS), LAMBDA flour, liquid :
    With2(FMul(Half, d), FMul(Half, d), LAMBDA flour_red, liquid_red :
    With(Reduce(a0, flour, flour_red, FlourWarning), LAMBDA r1 :
    With(Reduce(r1.amounts, liquid, liquid_red, LiquidWarning), LAMBDA r2 :
        [amounts |-> Put(r2.amounts, SddKey, d), flour |-> flour,
         warnings |-> r1.warnings \o r2.warnings])))))

\* the values of d whose key satisfies the liquid hints, from item i on
RECURSIVE LiquidValues(_, _)
LiquidValues(d, i) ==
    IF i > Len(d) THEN << >>
    ELSE IF MatchesAny(d[i].k, LIQUID_HINTS)
         THEN <<d[i].v>> \o LiquidValues(d, i + 1)
         ELSE LiquidValues(d, i + 1)

\* hydration: None, or Some(float)
hydration(amounts, flour) ==
    With2(amounts, flour, LAMBDA a, f :
        IF TruthyStr(f) /\ FGt(IF HasKey(a, f.val) THEN Get(a, f.val) ELSE Zero, Zero)
        THEN Some(FDiv(FMul(Hundred, PySum(LiquidValues(a, 1))), Get(a, f.val)))
        ELSE None)

---------------------------------------------------------------------------
(* recipes.json.  json.dump writes a float by repr, which float() reads    *)
(* back to the same double, and writes nan and the infinities as the       *)
(* tokens NaN, Infinity and -Infinity (allow_nan is left True).            *)

JsonNumber(x) ==
    IF IsNaN(x) THEN [tok |-> "NaN", repr |-> Zero]
    ELSE IF IsInf(x)
         THEN [tok |-> IF x.sign = 0 THEN "Infinity" ELSE "-Infinity", repr |-> Zero]
    ELSE [tok |-> "number", repr |-> x]

JsonFloat(t) ==
    IF t.tok = "NaN" THEN NaN
    ELSE IF t.tok = "Infinity" THEN Inf
    ELSE IF t.tok = "-Infinity" THEN NegInf
    ELSE t.repr

JsonDump(recipes) ==
    [i \in 1..Len(recipes) |->
        [k |-> recipes[i].k,
         v |-> [servings |-> JsonNumber(recipes[i].v.servings),
                ingredients |->
                    [j \in 1..Len(recipes[i].v.ingredients) |->
                        [k |-> recipes[i].v.ingredients[j].k,
                         v |-> JsonNumber(recipes[i].v.ingredients[j].v)]]]]]

JsonLoad(text) ==
    [i \in 1..Len(text) |->
        [k |-> text[i].k,
         v |-> [servings |-> JsonFloat(text[i].v.servings),
                ingredients |->
                    [j \in 1..Len(text[i].v.ingredients) |->
                        [k |-> text[i].v.ingredients[j].k,
                         v |-> JsonFloat(text[i].v.ingredients[j].v)]]]]]

NoFile == [exists |-> FALSE, text |-> << >>]

\* load_recipes: the dict in the file, {} when there is no file
load_recipes == IF file.exists THEN JsonLoad(file.text) ELSE << >>

\* the file save_recipes leaves
save_recipes(recipes) == [exists |-> TRUE, text |-> JsonDump(recipes)]

---------------------------------------------------------------------------
(* create_recipe.  entries are the lines typed at the ingredient prompts   *)
(* before the empty line that ends the loop: a name and, unless the name   *)
(* was already added, the total that get_float accepted for it.            *)

RECURSIVE AddIngredients(_, _, _, _)
AddIngredients(entries, i, servings, ingredients) ==
    IF i > Len(entries) THEN ingredients
    ELSE With2(Strip(entries[i].ing), ingredients, LAMBDA ing, added :
             IF HasKey(added, ing)
             THEN AddIngredients(entries, i + 1, servings, added)
             ELSE With(Put(added, ing, FDiv(entries[i].amt, servings)), LAMBDA more :
                      AddIngredients(entries, i + 1, servings, more)))

RECURSIVE IngredientPrompts(_, _, _)
IngredientPrompts(entries, i, seen) ==
    IF i > Len(entries) THEN <<"Ingredient name: ">>
    ELSE With2(Strip(entries[i].ing), seen, LAMBDA ing, before :
             IF ing \in before
             THEN <<"Ingredient name: ">> \o IngredientPrompts(entries, i + 1, before)
             ELSE <<"Ingredient name: ", "Total amount of ...: ">>
                      \o IngredientPrompts(entries, i + 1, before \cup {ing}))

\* create_recipe without the check of the name against the loaded store
create_recipe_replacing(rawName, servings, entries) ==
    With2(load_recipes, Strip(rawName), LAMBDA recipes, name :
        [saved |-> TRUE,
         recipes |-> Put(recipes, name,
                         [servings |-> servings,
                          ingredients |-> AddIngredients(entries, 1, servings, << >>)]),
         last |-> [op |-> "create", name |-> name, outcome |-> "saved",
                   prompts |-> <<"Recipe name: ", "Servings: ">>
                                   \o IngredientPrompts(entries, 1, {})]])

\* create_recipe saving the new recipe alone instead of the loaded store with it
create_recipe_alone(rawName, servings, entries) ==
    With2(load_recipes, Strip(rawName), LAMBDA recipes, name :
        IF name = << >> \/ HasKey(recipes, name)
        THEN [saved |-> FALSE, recipes |-> recipes,
              last |-> [op |-> "create", name |-> name, outcome |-> "rejected",
                        prompts |-> <<"Recipe name: ">>]]
        ELSE [saved |-> TRUE,
              recipes |-> Put(<< >>, name,
                              [servings |-> servings,
                               ingredients |-> AddIngredients(entries, 1, servings, << >>)]),
              last |-> [op |-> "create", name |-> name, outcome |-> "saved",
                        prompts |-> <<"Recipe name: ", "Servings: ">>
                                        \o IngredientPrompts(entries, 1, {})]])

\* [saved, recipes, last]: whether save_recipes was called, with which dict, and
\* what the call did
create_recipe(rawName, servings, entries) ==
    With2(load_recipes, Strip(rawName), LAMBDA recipes, name :
        IF name = << >> \/ HasKey(recipes, name)
        THEN [saved |-> FALSE, recipes |-> recipes,
              last |-> [op |-> "create", name |-> name, outcome |-> "rejected",
                        prompts |-> <<"Recipe name: ">>]]
        ELSE [saved |-> TRUE,
              recipes |-> Put(recipes, name,
                              [servings |-> servings,
                               ingredients |-> AddIngredients(entries, 1, servings, << >>)]),
              last |-> [op |-> "create", name |-> name, outcome |-> "saved",
                        prompts |-> <<"Recipe name: ", "Servings: ">>
                                        \o IngredientPrompts(entries, 1, {})]])

---------------------------------------------------------------------------
(* optimize_recipe.                                                        *)

\* {k: v * servings for k, v in ratios.items()}
Scale_unscaled(ratios, servings) == ratios

Scale(ratios, servings) ==
    With2(ratios, servings, LAMBDA r, s :
        [i \in 1..Len(r) |-> [k |-> r[i].k, v |-> FMul(r[i].v, s)]])

\* what both modes do once the amounts are computed: SDD, hydration, printing
Report(name, mode, use_sdd, sdd, ratios, available, servings) ==
    With(Scale(ratios, servings), LAMBDA pre :
    With(IF use_sdd THEN apply_sdd(pre, sdd)
         ELSE [amounts |-> pre,
               flour |-> detect_ingredient(Keys(pre), FLOUR_HINTS),
               warnings |-> << >>],
         LAMBDA adj :
    With(hydration(adj.amounts, adj.flour), LAMBDA h :
        [op |-> "optimize", name |-> name, mode |-> mode, outcome |-> "ok",
         use_sdd |-> use_sdd, sdd |-> sdd, ratios |-> ratios,
         available |-> available, servings |-> servings, pre |-> pre,
         amounts |-> adj.amounts, flour |-> adj.flour, warnings |-> adj.warnings,
         h |-> h, hydration_printed |-> TruthyFloat(h)])))

\* a call that ends in an uncaught exception, which ends the program
Raised(name, mode, use_sdd, sdd, ratios, available, exception) ==
    [op |-> "optimize", name |-> name, mode |-> mode, outcome |-> exception,
     use_sdd |-> use_sdd, sdd |-> sdd, ratios |-> ratios,
     available |-> available, servings |-> Zero, pre |-> << >>,
     amounts |-> << >>, flour |-> None, warnings |-> << >>,
     h |-> None, hydration_printed |-> FALSE]

\* mode "2": servings is what get_float accepted at "Target servings: "
optimize_target(name, use_sdd, sdd, servings) ==
    With(Get(load_recipes, name).ingredients, LAMBDA ratios :
        Report(name, "target", use_sdd, sdd, ratios, << >>, servings))

\* MaxServings with only the first ingredient taken as a constraint
MaxServingsFirstOnly(ratios, available) == FDiv(available[1], ratios[1].v)

\* min(available[k] / ratios[k] for k in ratios)
MaxServings(ratios, available) ==
    With2(ratios, available, LAMBDA r, a :
        PyMin([i \in 1..Len(r) |-> FDiv(a[i], r[i].v)]))

\* any other mode: available[i] is what get_float accepted for the i-th ingredient
optimize_maximize(name, use_sdd, sdd, available) ==
    With(Get(load_recipes, name).ingredients, LAMBDA ratios :
        IF \E i \in 1..Len(ratios) : IsZero(ratios[i].v)
        THEN Raised(name, "maximize", use_sdd, sdd, ratios, available,
                    "ZeroDivisionError")
        ELSE IF ratios = << >>
        THEN Raised(name, "maximize", use_sdd, sdd, ratios, available, "ValueError")
        ELSE With(MaxServings(ratios, available), LAMBDA servings :
                 Report(name, "maximize", use_sdd, sdd, ratios, available, servings)))

---------------------------------------------------------------------------
(* The menu loop.  Each action is one command of menu(), run to its end;   *)
(* Menu is the loop coming back to its prompt.  A command that raised has  *)
(* ended the program: Menu is then the user starting it again, recipes.json *)
(* being all that is kept between runs either way.                         *)

MaxRecipes == 2       \* recipes the store may hold
MaxIngredients == 2   \* ingredient lines typed for one recipe

Flour == <<"F", "l", "o", "u", "r">>
Water == <<"w", "a", "t", "e", "r">>
Milk == <<"M", "i", "l", "k">>

AtMenu == [op |-> "menu"]
NoScenario == [fn |-> "none"]

\* what the user may type at a numeric prompt, a recipe-name prompt, an
\* ingredient-name prompt; the actions take the numbers typed at each kind of
\* prompt as a parameter
Typed == {Zero, FInt(2), NaN}
TypedTotals == {FInt(-1), Zero, FInt(2)}
TypedSdd == {FInt(2)}
TypedAvailable == {FInt(2)}
NameInputs == {<<"A">>, <<" ", "B">>, <<"C">>, << >>, <<" ">>}
IngredientInputs == {Flour}

\* the ingredient lines of one create_recipe call
Entries(ings, totals) ==
    UNION {[1..n -> [ing : ings, amt : totals]] : n \in 0..MaxIngredients}

\* the recipes the menu letters reach: zip(string.ascii_uppercase, recipes.keys())
MenuNames ==
    {load_recipes[i].k : i \in 1..Min(Len(UpperCase), Len(load_recipes))}

Menu ==
    /\ last.op # "menu"
    /\ last' = AtMenu
    /\ UNCHANGED <<file, saves, scenario>>

\* whether create_recipe returns before it asks for anything but the name
AsksNameOnly(rawName) ==
    Strip(rawName) = << >> \/ HasKey(load_recipes, Strip(rawName))

\* "1": create_recipe
CreateRecipe(typedServings, typedTotals, names, ings) ==
    /\ last.op = "menu"
    /\ \E rawName \in names :
       \E servings \in (IF AsksNameOnly(rawName) THEN {Zero}
                        ELSE get_float(typedServings, FALSE, Zero, MinServings)) :
       \E entries \in (IF AsksNameOnly(rawName) THEN {<< >>}
                       ELSE Entries(ings, get_float(typedTotals, FALSE, Zero, Zero))) :
       \E r \in {create_recipe(rawName, servings, entries)} :
              /\ Len(r.recipes) <= MaxRecipes
              /\ file' = IF r.saved THEN save_recipes(r.recipes) ELSE file
              /\ saves' = IF r.saved THEN saves + 1 ELSE saves
              /\ last' = r.last
    /\ UNCHANGED scenario

\* a recipe letter: print_recipe
ViewRecipe ==
    /\ last.op = "menu"
    /\ \E name \in MenuNames : last' = [op |-> "view", name |-> name]
    /\ UNCHANGED <<file, saves, scenario>>

\* "2", a recipe letter, mode "2"
OptimizeTarget(typedSdd, typedServings) ==
    /\ last.op = "menu"
    /\ \E name \in MenuNames :
       \E use_sdd \in BOOLEAN :
       \E sdd \in (IF use_sdd THEN get_float(typedSdd, FALSE, Zero, Zero) ELSE {Zero}) :
       \E servings \in get_float(typedServings, FALSE, Zero, MinServings) :
          last' = optimize_target(name, use_sdd, sdd, servings)
    /\ UNCHANGED <<file, saves, scenario>>

\* "2", a recipe letter, any other mode
OptimizeMaximize(typedSdd, typedAvailable) ==
    /\ last.op = "menu"
    /\ \E name \in MenuNames :
       \E use_sdd \in BOOLEAN :
       \E sdd \in (IF use_sdd THEN get_float(typedSdd, FALSE, Zero, Zero) ELSE {Zero}) :
       \E available \in [1..Len(Get(load_recipes, name).ingredients)
                            -> get_float(typedAvailable, TRUE, Inf, Zero)] :
          last' = optimize_maximize(name, use_sdd, sdd, available)
    /\ UNCHANGED <<file, saves, scenario>>

Init ==
    /\ file = NoFile
    /\ saves = 0
    /\ last = AtMenu
    /\ scenario = NoScenario

Next ==
    \/ Menu
    \/ CreateRecipe(Typed, TypedTotals, NameInputs, IngredientInputs)
    \/ ViewRecipe
    \/ OptimizeTarget(TypedSdd, Typed)
    \/ OptimizeMaximize(TypedSdd, TypedAvailable)

Spec == Init /\ [][Next]_vars

---------------------------------------------------------------------------
(* The same program with one recipe name and more numbers and ingredient   *)
(* names to type: the store holds at most one recipe, of every shape       *)
(* create_recipe can give it.                                              *)

OptServings == {Zero, FInt(3)}
OptTotals == {FInt(-1), Zero, FInt(1), FInt(3)}
OptSdd == {FInt(3)}
OptAvailable == {Zero, FInt(1), FInt(3)}
OptNameInputs == {<<"A">>}
OptIngredientInputs == {Flour, Water, Milk}

NextOpt ==
    \/ Menu
    \/ CreateRecipe(OptServings, OptTotals, OptNameInputs, OptIngredientInputs)
    \/ OptimizeTarget(OptSdd, OptServings)
    \/ OptimizeMaximize(OptSdd, OptAvailable)

SpecOpt == Init /\ [][NextOpt]_vars

---------------------------------------------------------------------------
(* Claims about maximize mode and hydration, checked under SpecOpt.        *)

MaximizeCall == last.op = "optimize" /\ last.mode = "maximize"

\* available[i] / ratios[i] of the last call
Quotient(i) == FDiv(last.available[i], last.ratios[i].v)

PositiveRatio(i) == FGt(last.ratios[i].v, Zero)

\* every quantity typed is a non-negative number, or was left blank (unlimited)
AvailableGiven ==
    \A i \in 1..Len(last.available) :
        ~IsNaN(last.available[i]) /\ ~FLt(last.available[i], Zero)

C2_ZeroRatioIsNoConstraint ==
    (/\ MaximizeCall
     /\ \E i \in 1..Len(last.ratios) : IsZero(last.ratios[i].v)
     /\ \A i \in 1..Len(last.ratios) : ~IsNaN(last.ratios[i].v)
     /\ AvailableGiven)
    => /\ last.outcome = "ok"
       /\ \A i \in 1..Len(last.ratios) :
             PositiveRatio(i) => ~FLt(Quotient(i), last.servings)
       /\ (\E i \in 1..Len(last.ratios) : PositiveRatio(i))
             => \E i \in 1..Len(last.ratios) :
                   PositiveRatio(i) /\ last.servings = Quotient(i)

\* the amount of the flour ingredient after any SDD adjustment
FinalFlour == Get(last.amounts, last.flour.val)

\* C5: in both modes a hydration value is reported exactly when a flour
\* ingredient is identified and its final amount is > 0, and the value is then
\* 100 * (the sum of the final amounts of all ingredients whose lowercased name
\* contains "water" or "milk") / (the final flour amount).
C5_HydrationReported ==
    (last.op = "optimize" /\ last.outcome = "ok")
    => /\ last.hydration_printed
             <=> (TruthyStr(last.flour) /\ FGt(FinalFlour, Zero))
       /\ last.hydration_printed
             => last.h.val =
                   FDiv(FMul(Hundred, PySum(LiquidValues(last.amounts, 1))), FinalFlour)

---------------------------------------------------------------------------
(* Claims about the store, checked under Spec.                             *)

\* C6: a create_recipe call whose name is empty after trimming, or already a
\* key of the loaded store, is rejected: it returns having asked for the name
\* only (no servings, no ingredient), save_recipes is not called, and the file is
\* after the call what it was before it.
C6_InvalidNameRejected ==
    [][(/\ last'.op = "create"
        /\ \/ last'.name = << >>
           \/ \E i \in 1..Len(load_recipes) : load_recipes[i].k = last'.name)
       => /\ last'.outcome = "rejected"
          /\ last'.prompts = <<"Recipe name: ">>
          /\ saves' = saves
          /\ file' = file]_vars

\* C6's case: a create_recipe call with the name of a stored recipe has returned
C6_Witness ==
    /\ last.op = "create"
    /\ last.outcome = "rejected"
    /\ HasKey(load_recipes, last.name)
    /\ saves >= 1

\* C9: every recipe in the store create_recipe has written has a non-empty
\* name, servings > 0, and only ratios >= 0.
C9_StoreInvariant ==
    \A i \in 1..Len(load_recipes) :
        /\ load_recipes[i].k # << >>
        /\ FGt(load_recipes[i].v.servings, Zero)
        /\ \A j \in 1..Len(load_recipes[i].v.ingredients) :
              \/ FGt(load_recipes[i].v.ingredients[j].v, Zero)
              \/ IsZero(load_recipes[i].v.ingredients[j].v)

\* C10: the store is append-only.  Every step leaves each stored recipe where it
\* was, with its name, servings and ratios; a step that changes the file is a
\* create_recipe call that saved, and it adds one recipe; viewing and optimize_recipe
\* write nothing.
C10_AppendOnly ==
    [][/\ Len(load_recipes') >= Len(load_recipes)
       /\ \A i \in 1..Len(load_recipes) : load_recipes'[i] = load_recipes[i]
       /\ (file' # file \/ saves' # saves)
             => /\ last'.op = "create"
                /\ last'.outcome = "saved"
                /\ saves' = saves + 1
                /\ Len(load_recipes') = Len(load_recipes) + 1
                /\ ~HasKey(load_recipes, last'.name)
                /\ load_recipes'[Len(load_recipes')].k = last'.name]_vars

\* C10's case: a second recipe has been saved, and the first has been optimized
\* since
C10_Witness ==
    /\ Len(load_recipes) >= 2
    /\ saves >= 2
    /\ last.op = "optimize"
    /\ last.name = load_recipes[1].k
    /\ last.use_sdd

---------------------------------------------------------------------------
(* apply_sdd on its own: an amounts mapping and a discard mass are drawn,   *)
(* and one step applies the function.                                      *)

FlourWater == <<"f", "l", "o", "u", "r", " ", "w", "a", "t", "e", "r">>
Salt == <<"s", "a", "l", "t">>

SddNames == {Flour, Water, Milk, FlourWater, Salt}
SddAmounts == {Zero, FInt(1), FInt(3)}
SddDiscards == {Zero, FInt(2), FInt(4), FInt(8)}

\* the dicts of at most MaxIngredients of the names
SddMappings ==
    UNION {{[i \in 1..n |-> [k |-> ks[i], v |-> vs[i]]] :
               ks \in {f \in [1..n -> SddNames] :
                          \A i, j \in 1..n : i # j => f[i] # f[j]},
               vs \in [1..n -> SddAmounts]} : n \in 0..MaxIngredients}

InitSdd ==
    /\ file = NoFile
    /\ saves = 0
    /\ last = AtMenu
    /\ \E amounts \in SddMappings, sdd \in SddDiscards :
          scenario = [fn |-> "apply_sdd", amounts |-> amounts, sdd |-> sdd,
                      done |-> FALSE,
                      result |-> [amounts |-> << >>, flour |-> None, warnings |-> << >>]]

ApplySdd ==
    /\ scenario.fn = "apply_sdd"
    /\ ~scenario.done
    /\ scenario' = [scenario EXCEPT !.done = TRUE,
                                    !.result = apply_sdd(scenario.amounts, scenario.sdd)]
    /\ UNCHANGED <<file, saves, last>>

NextSdd == ApplySdd

SpecSdd == InitSdd /\ [][NextSdd]_vars

SddDone == scenario.fn = "apply_sdd" /\ scenario.done

\* the position of the first name of the given amounts that contains one of the
\* hints in lower case, 0 when there is none
FirstWith(hints) ==
    IF \E i \in 1..Len(scenario.amounts) : MatchesAny(scenario.amounts[i].k, hints)
    THEN CHOOSE i \in 1..Len(scenario.amounts) :
             /\ MatchesAny(scenario.amounts[i].k, hints)
             /\ \A j \in 1..(i - 1) : ~MatchesAny(scenario.amounts[j].k, hints)
    ELSE 0

FlourAt == FirstWith(FLOUR_HINTS)
LiquidAt == FirstWith(LIQUID_HINTS)

\* max(0, x - 0.5 * D)
ReducedBy(x, D) == PyMax0(FSub(x, FMul(Half, D)))

\* 0.5 * D > x
Exceeds(D, x) == FGt(FMul(Half, D), x)

\* C3: for every D >= 0 and amounts with a flour ingredient of amount F and a
\* liquid ingredient of amount L, apply_sdd returns a mapping where the flour
\* ingredient has max(0, F - 0.5 D), the liquid ingredient max(0, L - 0.5 D), and
\* "sdd" has D.
C3_SddAmounts ==
    (SddDone /\ FlourAt # 0 /\ LiquidAt # 0)
    => /\ Get(scenario.result.amounts, scenario.amounts[FlourAt].k)
             = ReducedBy(scenario.amounts[FlourAt].v, scenario.sdd)
       /\ Get(scenario.result.amounts, scenario.amounts[LiquidAt].k)
             = ReducedBy(scenario.amounts[LiquidAt].v, scenario.sdd)
       /\ Get(scenario.result.amounts, SddKey) = scenario.sdd

\* the warnings the original amounts F and L call for, flour first
WarningsDue ==
    (IF FlourAt # 0 /\ Exceeds(scenario.sdd, scenario.amounts[FlourAt].v)
     THEN <<FlourWarning>> ELSE << >>)
    \o (IF LiquidAt # 0 /\ Exceeds(scenario.sdd, scenario.amounts[LiquidAt].v)
        THEN <<LiquidWarning>> ELSE << >>)

\* C4: for every D >= 0 and amounts with original flour amount F and liquid amount
\* L, the warnings apply_sdd returns hold the flour warning exactly when a flour
\* ingredient is found and 0.5 D > F, the liquid warning exactly when a liquid
\* ingredient is found and 0.5 D > L, flour first, and nothing else.
C4_SddWarnings == SddDone => scenario.result.warnings = WarningsDue

---------------------------------------------------------------------------
(* detect_ingredient on its own: a list of names and a list of hints are    *)
(* drawn, and one step applies the function.                               *)

MaxKeys == 2   \* names in the list given to detect_ingredient

WholeWheatFlour == <<"W", "h", "o", "l", "e", " ", "W", "h", "e", "a", "t", " ",
                     "F", "l", "o", "u", "r">>
WATER == <<"W", "A", "T", "E", "R">>

DetectNames == {WholeWheatFlour, WATER, Milk, Salt, FlourWater}
MilkWater == << <<"m", "i", "l", "k">>, <<"w", "a", "t", "e", "r">> >>
WaterFlour == << <<"w", "a", "t", "e", "r">>, <<"f", "l", "o", "u", "r">> >>
DetectHints == {FLOUR_HINTS, LIQUID_HINTS, MilkWater, WaterFlour, << >>}

InitDetect ==
    /\ file = NoFile
    /\ saves = 0
    /\ last = AtMenu
    /\ \E n \in 0..MaxKeys : \E keys \in [1..n -> DetectNames] :
       \E hints \in DetectHints :
          scenario = [fn |-> "detect_ingredient", keys |-> keys, hints |-> hints,
                      done |-> FALSE, result |-> None]

Detect ==
    /\ scenario.fn = "detect_ingredient"
    /\ ~scenario.done
    /\ scenario' = [scenario EXCEPT
                       !.done = TRUE,
                       !.result = detect_ingredient(scenario.keys, scenario.hints)]
    /\ UNCHANGED <<file, saves, last>>

NextDetect == Detect

SpecDetect == InitDetect /\ [][NextDetect]_vars

DetectDone == scenario.fn = "detect_ingredient" /\ scenario.done

\* the lower-cased i-th name has the j-th hint at offset a
HintAt(i, j, a) ==
    /\ a + Len(scenario.hints[j]) <= Len(scenario.keys[i])
    /\ \A c \in 1..Len(scenario.hints[j]) :
          LowerChar(scenario.keys[i][a + c]) = scenario.hints[j][c]

\* the i-th name, lower-cased, contains one of the hints
NameMatches(i) ==
    \E j \in 1..Len(scenario.hints) : \E a \in 0..Len(scenario.keys[i]) : HintAt(i, j, a)

\* C8: detect_ingredient returns the first name, in the order given, whose
\* lower-cased form contains at least one of the hints, whatever the order of the
\* hints, and None when no name contains a hint; the match ignores the case of
\* the name: "Whole Wheat Flour" is a flour and "WATER" a liquid.
C8_FirstMatch ==
    DetectDone
    => /\ scenario.result.none <=> \A i \in 1..Len(scenario.keys) : ~NameMatches(i)
       /\ ~scenario.result.none
             => \E i \in 1..Len(scenario.keys) :
                   /\ scenario.result.val = scenario.keys[i]
                   /\ NameMatches(i)
                   /\ \A k \in 1..(i - 1) : ~NameMatches(k)
       /\ (scenario.keys = <<WholeWheatFlour>> /\ scenario.hints = FLOUR_HINTS)
             => scenario.result = Some(WholeWheatFlour)
       /\ (scenario.keys = <<WATER>> /\ scenario.hints = LIQUID_HINTS)
             => scenario.result = Some(WATER)

\* C8's case: the first name matches no hint and the second, written in capitals,
\* is returned for the second hint
C8_Witness ==
    /\ DetectDone
    /\ Len(scenario.keys) = 2
    /\ scenario.hints = MilkWater
    /\ scenario.keys[1] = Salt
    /\ scenario.result = Some(WATER)

---------------------------------------------------------------------------
(* The round trip: a recipe is created, and then scaled in target mode to   *)
(* the servings it was created with, without SDD.  scenario keeps what was  *)
(* typed at creation.                                                      *)

RoundTripServings == {FInt(1), FInt(3), FInt(11), MinServings}
RoundTripTotals == {Zero, FInt(1), FInt(7), FInt(15)}
RoundTripNames == {<<"A">>}
RoundTripIngredients == {Flour, Water, Salt}

RoundTripCreate ==
    /\ last.op = "menu"
    /\ \E rawName \in {n \in RoundTripNames : ~AsksNameOnly(n)} :
       \E servings \in get_float(RoundTripServings, FALSE, Zero, MinServings) :
       \E entries \in Entries(RoundTripIngredients,
                              get_float(RoundTripTotals, FALSE, Zero, Zero)) :
       \E r \in {create_recipe(rawName, servings, entries)} :
          /\ r.saved
          /\ Len(r.recipes) <= MaxRecipes
          /\ file' = save_recipes(r.recipes)
          /\ saves' = saves + 1
          /\ last' = r.last
          /\ scenario' = [fn |-> "round_trip", name |-> r.last.name,
                          servings |-> servings, entries |-> entries]

RoundTripTarget ==
    /\ last.op = "menu"
    /\ scenario.fn = "round_trip"
    /\ scenario.name \in MenuNames
    /\ last' = optimize_target(scenario.name, FALSE, Zero, scenario.servings)
    /\ UNCHANGED <<file, saves, scenario>>

NextRoundTrip ==
    \/ Menu
    \/ RoundTripCreate
    \/ RoundTripTarget

SpecRoundTrip == Init /\ [][NextRoundTrip]_vars

RoundTripDone ==
    /\ scenario.fn = "round_trip"
    /\ last.op = "optimize"
    /\ last.outcome = "ok"

\* the i-th ingredient line typed names an ingredient not named before it: its
\* total is the one create_recipe asked for
FirstNamed(i) ==
    \A j \in 1..(i - 1) : scenario.entries[j].ing # scenario.entries[i].ing

\* the ingredients are the same set
SameIngredients ==
    {last.amounts[i].k : i \in 1..Len(last.amounts)}
        = {scenario.entries[i].ing : i \in 1..Len(scenario.entries)}

\* C7: creating a recipe with servings S > 0 and totals t_i >= 0, then scaling it
\* in target mode to S servings without SDD, yields the amount t_i again for every
\* ingredient i, with the same set of ingredients.
C7_RoundTripExact ==
    RoundTripDone
    => /\ SameIngredients
       /\ \A i \in 1..Len(scenario.entries) :
             FirstNamed(i)
                => Get(last.amounts, scenario.entries[i].ing) = scenario.entries[i].amt

\* 2^51
TwoTo51 == FDyadic(1, -51)

\* |x - t| <= t * 2^-51
Within(x, t) ==
    With(FSub(x, t), LAMBDA d :
        ~FGt(FMul(IF FLt(d, Zero) THEN Neg(d) ELSE d, TwoTo51), t))

\* C7, amended: the round trip yields for every ingredient i an amount within
\* the relative error 2^-51 of t_i, with the same set of ingredients.
C7_RoundTripWithin ==
    RoundTripDone
    => /\ SameIngredients
       /\ \A i \in 1..Len(scenario.entries) :
             FirstNamed(i)
                => Within(Get(last.amounts, scenario.entries[i].ing),
                          scenario.entries[i].amt)

\* C7's case: a total of 15 at 11 servings comes back as another number, next
\* to a total that comes back as typed
C7_Witness ==
    /\ RoundTripDone
    /\ scenario.servings = FInt(11)
    /\ Len(scenario.entries) >= 2
    /\ scenario.entries[1].amt = FInt(15)
    /\ scenario.entries[2].amt = FInt(7)
    /\ scenario.entries[2].ing # scenario.entries[1].ing
    /\ last.amounts[1].v # FInt(15)
    /\ last.amounts[2].v = FInt(7)

=============================================================================
